---- MODULE Spec2Model ----
(***************************************************************************)
(* Model of Moby's EventDrivenSimulator (src/src/EventDrivenSimulator.cpp) *)
(* and of the Event classification it relies on (include/Moby/Event.h).    *)
(*                                                                         *)
(* Units.  Times are integers counted in ticks; the normalized event time  *)
(* Event::t in [0,1] is the fraction t / TDen, so the code's product       *)
(* "t*dt" is (t * dt) \div TDen and the detectors only return times for    *)
(* which that product is a whole number of ticks.  One tick is the machine *)
(* epsilon the locator adds to tmin (TimeEps).  Velocities are integers    *)
(* counted in machine epsilons (VelEps); the velocities that occur are     *)
(* multiples of VelUnit, so that epsilon is smaller than any difference    *)
(* between two of them.  Bodies have one generalized coordinate each.      *)
(***************************************************************************)
EXTENDS Integers, Sequences, FiniteSets, TLC

\* ---- bounds of the model ------------------------------------------------
NumBodies == 1
MaxEvents == 1
MaxHandled == 2
MaxExc == 2
MaxCand == 3
MaxSteps == 1
MaxTyped == 2
MaxBuilt == 3
GridX == 2
GridY == 1
MaxGroup == 3
MaxReduce == 2
NumSuper == 3
MaxConn == 3
NumDetectors == 2
MaxWarn == 2
StepSize == 4
InitQ == 1
MaxClsVel == 6
MaxClsTol == 7
TDen == 2
VelUnit == 2

\* ---- constants of the program -------------------------------------------
TimeEps == 1
VelEps == 1
DefaultTol == 1
INF == 1000000
NoTol == -1

Bodies == 1 .. NumBodies
BodyVels == {-1, 1}
Vels == {0 - VelUnit, 0, VelUnit}
MeasVels == Vels
ContactIds == {"geompair"}
LimitIds == {"jointdof"}
Ids == ContactIds \cup LimitIds
EventTypes == {"eNone", "eContact", "eLimit", "eConstraint"}
EventClasses == {"eUndetermined", "eSeparating", "eResting", "eImpacting"}

VARIABLES
  pc,                \* position of the step driver
  steps,             \* number of step() calls started
  current_time,      \* Simulator::current_time
  q,                 \* generalized coordinates of each body
  qd,                \* generalized velocity of each body
  q0,                \* _q0: coordinates at the start of the interval
  qf,                \* _qf: coordinates at the end of the interval
  qdf,               \* _qdf: cached end-of-interval velocities
  dt,                \* step(): amount remaining to step
  step_size,         \* step(): the argument
  h,                 \* value returned by find_TOI / find_and_handle_si_events
  events,            \* _events
  event_tolerances,  \* _event_tolerances, NoTol where there is no entry
  cand,              \* _events as built (sorted, stamped) before find_TOI
  exc,               \* events named by the caught ImpactToleranceException
  nproc,             \* process_events() invocations of the last handle_events
  clsV, clsTol, clsOut, \* input and output of determine_event_class
  raw,               \* _events as concatenated, before std::sort
  contact_params,    \* contact_params: the registered keys
  artic,             \* whether the body of geometry i is a link of an articulated body
  cpOut,             \* result of get_contact_parameters
  simulation_violated,  \* _simulation_violated
  warnings,          \* interpenetration warnings written to std::cerr
  checked,           \* check_violation() ran at the entry of this search
  ndet,              \* collision_detectors.size()
  calls,             \* the collaborators the search invoked, with what they returned
  groups,            \* a contact group, and what manifold reduction made of it
  hooks              \* callbacks and calls made since the current search began

vars == <<pc, steps, current_time, q, qd, q0, qf, qdf, dt, step_size, h,
          events, event_tolerances, cand, exc, nproc, clsV, clsTol, clsOut,
          raw, contact_params, artic, cpOut, simulation_violated, warnings,
          checked, ndet, calls, groups, hooks>>

Abs(x) == IF x < 0 THEN 0 - x ELSE x

\* variant: the boundary v = tol counted as separating
DetermineEventClass_Strict(v, tol) ==
  IF v >= tol THEN "eSeparating"
  ELSE IF v < 0 - tol THEN "eImpacting"
  ELSE "eResting"

\* ---- contact parameters --------------------------------------------------
\* The contact events of the model concern one pair of collision geometries
\* g1, g2; sb1, sb2 are their single bodies and ab1, ab2 the articulated
\* bodies of those, when they have one.  A key of contact_params is a
\* sorted_pair, that is an unordered pair, and stands for its own entry.
KeyGG == {"g1", "g2"}
KeyG1SB2 == {"g1", "sb2"}
KeyG2SB1 == {"g2", "sb1"}
KeySBSB == {"sb1", "sb2"}
KeyG2AB1 == {"g2", "ab1"}
KeySB2AB1 == {"sb2", "ab1"}
KeyG1AB2 == {"g1", "ab2"}
KeySB1AB2 == {"sb1", "ab2"}
KeyABAB == {"ab1", "ab2"}
CPKeys == {KeyGG, KeyG1SB2, KeyG2SB1, KeySBSB, KeyG2AB1, KeySB2AB1, KeyG1AB2,
           KeySB1AB2, KeyABAB}

\* the empty shared_ptr<ContactParameters>
NoParams == {}

\* get_contact_parameters has not returned yet
CPPending == {"pending"}

\* the friction/restitution values of a freshly constructed event
DefaultParams == {"default"}

\* the contact_params.find() calls in the order the code makes them; ab[i]
\* tells whether ab_i is non-null
Probes(ab) ==
  <<KeyGG, KeyG1SB2, KeyG2SB1, KeySBSB>>
    \o (IF ab[1] THEN <<KeyG2AB1, KeySB2AB1>> ELSE << >>)
    \o (IF ab[2] THEN <<KeyG1AB2, KeySB1AB2>> ELSE << >>)
    \o (IF ab[1] /\ ab[2] THEN <<KeyABAB>> ELSE << >>)

RECURSIVE FirstFound(_, _)
FirstFound(tab, ps) ==
  IF ps = << >> THEN NoParams
  ELSE IF Head(ps) \in tab THEN Head(ps)
  ELSE FirstFound(tab, Tail(ps))

get_contact_parameters(tab, ab) == FirstFound(tab, Probes(ab))

\* ---- Event ---------------------------------------------------------------
\* Event::determine_event_class on the event velocity v and tolerance tol
DetermineEventClass(v, tol) ==
  IF v > tol THEN "eSeparating"
  ELSE IF v < 0 - tol THEN "eImpacting"
  ELSE "eResting"

calc_event_vel(e) == e.v

determine_event_class(e) == DetermineEventClass(calc_event_vel(e), e.tol)

is_impacting(e) == determine_event_class(e) = "eImpacting"

is_resting(e) == determine_event_class(e) = "eResting"

is_separating(e) == determine_event_class(e) = "eSeparating"

\* Event::operator<
EventLess(a, b) == a.t < b.t

\* variant: the key is the sort key of operator<
EventIdentity_ByTime(e) == IF e.t = 0 THEN "geompair" ELSE "jointdof"

\* EventCompare: the key of _event_tolerances
EventIdentity(e) == e.id

\* the code's "t*dt"
ScaledTime(t, d) == (t * d) \div TDen

\* ---- Event-Set Builder ---------------------------------------------------
\* times a detector can return for an interval of length d
EventTimes(d) == {t \in 0 .. (TDen + 1) : (t * d) % TDen = 0}

\* a freshly constructed event as a collaborator returns it
NewEvent(ty, id, t, v) ==
  [type |-> ty, id |-> id, t |-> t, t_true |-> 0, v |-> v, tol |-> DefaultTol,
   params |-> DefaultParams]

SeqsUpTo(S, n) == UNION {[1 .. k -> S] : k \in 0 .. n}

\* what is_contact can return: contact points of a geometry pair
ContactEvents(d) ==
  {NewEvent("eContact", id, t, v) :
     id \in ContactIds, t \in EventTimes(d), v \in Vels}

\* the contact points of bodies that approach each other
ApproachingContacts(d) == {e \in ContactEvents(d) : e.v < 0}

\* what a detector can return when it is not held to contact events; an event
\* carries the identity of the geometry pair the detector examined
TypedEvents(d) ==
  {NewEvent(ty, id, t, v) :
     ty \in EventTypes \ {"eLimit"}, id \in ContactIds, t \in EventTimes(d),
     v \in Vels}

\* what find_limit_events can return: a degree of freedom reaches a limit
LimitEvents(d) ==
  {NewEvent("eLimit", id, t, v) :
     id \in LimitIds, t \in EventTimes(d), v \in Vels}

\* the limit search returns one event per joint degree of freedom at most
LimitLists(d, n) ==
  {le \in SeqsUpTo(LimitEvents(d),
                   IF n < Cardinality(LimitIds) THEN n
                   ELSE Cardinality(LimitIds)) :
     \A i, j \in DOMAIN le : i # j => le[i].id # le[j].id}

IsSortedByT(s) == \A i \in 1 .. (Len(s) - 1) : ~EventLess(s[i + 1], s[i])

IndexPerms(n) ==
  {p \in [1 .. n -> 1 .. n] : \A i, j \in 1 .. n : i # j => p[i] # p[j]}

\* variant: the concatenation is left as it is
SortOutcomes_AsIs(r) == {r}

\* std::sort(_events.begin(), _events.end()): not a stable sort, so any
\* ordering of the elements that is sorted by operator< can come out
SortOutcomes(r) ==
  {s \in {[i \in 1 .. Len(r) |-> r[p[i]]] : p \in IndexPerms(Len(r))} :
     IsSortedByT(s)}


\* variant: the tolerance table is not consulted
StampTol_Ignore(e, tab) == e.tol

\* the tolerance lookup of one event
StampTol(e, tab) ==
  IF tab[EventIdentity(e)] # NoTol THEN tab[EventIdentity(e)] ELSE e.tol

\* variant: the lookup inserts a default entry (operator[] instead of find)
TableAfterFind_Insert(tab, s) ==
  [id \in DOMAIN tab |->
     IF tab[id] = NoTol /\ \E i \in DOMAIN s : EventIdentity(s[i]) = id
     THEN 0 ELSE tab[id]]

\* _event_tolerances after the lookups of the stamping loop: find() is const
TableAfterFind(tab, s) == tab

\* variant: the "real" time is not advanced by t*dt
StampEvents_Unscaled(s, ct, d, tab) ==
  [i \in 1 .. Len(s) |->
     [s[i] EXCEPT !.t_true = ct, !.tol = StampTol(s[i], tab)]]

\* the loop that sets t_true and tol of every event
StampEvents(s, ct, d, tab) ==
  [i \in 1 .. Len(s) |->
     [s[i] EXCEPT !.t_true = ct + ScaledTime(s[i].t, d),
                  !.tol = StampTol(s[i], tab)]]

\* variant: the exit check is never taken
BeyondInterval_Never(tmin, d) == FALSE

\* ---- Time-of-Impact Locator ----------------------------------------------
\* "check for exit"
BeyondInterval(tmin, d) == tmin > d

\* variant: the group is the first event alone
GroupEnd_First(ev, c, tmin, d) == c

\* variant: an event is compared with the previous member of the group
RECURSIVE GroupEnd_Chain(_, _, _, _)
GroupEnd_Chain(ev, c, tmin, d) ==
  IF c > Len(ev) THEN c
  ELSE IF ScaledTime(ev[c].t, d) > ScaledTime(ev[c - 1].t, d) + TimeEps THEN c
  ELSE GroupEnd_Chain(ev, c + 1, tmin, d)

\* index at which the inner for loop stops: the first event after c whose
\* time exceeds tmin + epsilon, or one past the end
RECURSIVE GroupEnd(_, _, _, _)
GroupEnd(ev, c, tmin, d) ==
  IF c > Len(ev) THEN c
  ELSE IF ScaledTime(ev[c].t, d) > tmin + TimeEps THEN c
  ELSE GroupEnd(ev, c + 1, tmin, d)


\* variant: every group is committed
GroupImpacting_Always(ev, c, c2) == TRUE

\* the flag "impacting" after the events c .. c2-1 were examined
GroupImpacting(ev, c, c2) == \E i \in c .. (c2 - 1) : is_impacting(ev[i])

\* the else branch: citer = _events.erase(citer, _events.end())
EraseAfterGroup(ev, c2) ==
  [events |-> SubSeq(ev, 1, c2 - 1), citer |-> c2]

\* variant: the exit beyond the interval leaves current_time as it was
ExitBeyond_KeepTime(d, vq0, vqdf, ct) ==
  [ret |-> INF, events |-> << >>,
   qf |-> [b \in Bodies |-> vqdf[b] * d + vq0[b]],
   q0 |-> vq0,
   q |-> [b \in Bodies |-> vqdf[b] * d + vq0[b]],
   ct |-> ct]

\* the exit taken when the first remaining event lies beyond dt
ExitBeyond(d, vq0, vqdf, ct) ==
  [ret |-> INF, events |-> << >>,
   qf |-> [b \in Bodies |-> vqdf[b] * d + vq0[b]],
   q0 |-> vq0,
   q |-> [b \in Bodies |-> vqdf[b] * d + vq0[b]],
   ct |-> ct + d]

\* variant: the stored start coordinates are left at the start of the interval
ExitImpact_KeepStart(ev, c2, hh, vq0, vqdf, ct) ==
  [ret |-> hh, events |-> SubSeq(ev, 1, c2 - 1),
   qf |-> [b \in Bodies |-> vqdf[b] * hh],
   q0 |-> vq0,
   q |-> [b \in Bodies |-> vq0[b] + vqdf[b] * hh],
   ct |-> ct + hh]

\* the return taken when the group holds an impacting event
ExitImpact(ev, c2, hh, vq0, vqdf, ct) ==
  [ret |-> hh, events |-> SubSeq(ev, 1, c2 - 1),
   qf |-> [b \in Bodies |-> vqdf[b] * hh],
   q0 |-> [b \in Bodies |-> vq0[b] + vqdf[b] * hh],
   q |-> [b \in Bodies |-> vq0[b] + vqdf[b] * hh],
   ct |-> ct + hh]

\* the code after the while loop
ExitNoImpact(d, vq0, vqdf, ct) ==
  [ret |-> INF, events |-> << >>,
   qf |-> [b \in Bodies |-> vqdf[b] * d],
   q0 |-> [b \in Bodies |-> vq0[b] + vqdf[b] * d],
   q |-> [b \in Bodies |-> vqdf[b] * d],
   ct |-> ct + d]

\* the while loop of find_TOI, citer = c, integration performed = hh
RECURSIVE TOILoop(_, _, _, _, _, _, _)
TOILoop(ev, c, hh, d, vq0, vqdf, ct) ==
  IF c > Len(ev) THEN ExitNoImpact(d, vq0, vqdf, ct)
  ELSE
    LET tmin == ScaledTime(ev[c].t, d) IN
    IF BeyondInterval(tmin, d) THEN ExitBeyond(d, vq0, vqdf, ct)
    ELSE
      LET h2 == hh + tmin
          c2 == GroupEnd(ev, c + 1, tmin, d)
      IN IF GroupImpacting(ev, c, c2)
         THEN ExitImpact(ev, c2, h2, vq0, vqdf, ct)
         ELSE LET er == EraseAfterGroup(ev, c2)
              IN TOILoop(er.events, er.citer, h2, d, vq0, vqdf, ct)

find_TOI(ev, d, vq0, vqdf, ct) == TOILoop(ev, 1, 0, d, vq0, vqdf, ct)

\* ---- handle_events: preprocessing -----------------------------------------
\* preprocess_event: "assert(e.event_type == Event::eContact)" fails
PreprocessAborts(e) == e.type \notin {"eLimit", "eNone", "eContact"}

\* variant: an event without registered parameters loses its defaults
preprocess_event_Reset(e, tab, ab) ==
  IF e.type \in {"eLimit", "eNone"} THEN e
  ELSE [e EXCEPT !.params = get_contact_parameters(tab, ab)]

\* preprocess_event on an event that passes the assertion
preprocess_event(e, tab, ab) ==
  IF e.type \in {"eLimit", "eNone"} THEN e
  ELSE LET cparams == get_contact_parameters(tab, ab)
       IN IF cparams # NoParams THEN [e EXCEPT !.params = cparams] ELSE e

\* the loop "for i: preprocess_event(_events[i])"
PreprocessAll(ev, tab, ab) ==
  [i \in 1 .. Len(ev) |-> preprocess_event(ev[i], tab, ab)]

\* ---- check_violation ------------------------------------------------------
\* variant: the warning is written for every colliding detector
WarnGuard_Always(flag) == TRUE

\* "if (!_simulation_violated)" around the warning
WarnGuard(flag) == ~flag

\* variant: check_violation is called on every search
CheckGuard_Always(flag) == TRUE

\* "if (!_simulation_violated) check_violation()" in a build without NDEBUG
CheckGuard(flag) == ~flag

\* the loop over collision_detectors; cr[i] is what is_collision(0) returns
RECURSIVE CheckLoop(_, _, _, _)
CheckLoop(flag, warn, cr, i) ==
  IF i > Len(cr) THEN [flag |-> flag, warn |-> warn]
  ELSE IF cr[i]
    THEN CheckLoop(TRUE,
                   IF WarnGuard(flag) /\ warn < MaxWarn THEN warn + 1 ELSE warn,
                   cr, i + 1)
    ELSE CheckLoop(flag, warn, cr, i + 1)

check_violation(flag, warn, cr) == CheckLoop(flag, warn, cr, 1)

\* ---- Step Driver ---------------------------------------------------------
Init ==
  /\ pc = "idle"
  /\ steps = 0
  /\ current_time = 0
  /\ q = [b \in Bodies |-> InitQ]
  /\ qd = [b \in Bodies |-> 1]
  /\ q0 = [b \in Bodies |-> InitQ]
  /\ qf = [b \in Bodies |-> InitQ]
  /\ qdf = [b \in Bodies |-> 1]
  /\ dt = 0
  /\ step_size = 0
  /\ h = 0
  /\ events = << >>
  /\ event_tolerances = [id \in Ids |-> NoTol]
  /\ cand = << >>
  /\ exc = << >>
  /\ nproc = 0
  /\ clsV = 0
  /\ clsTol = 0
  /\ clsOut = "pending"
  /\ raw = << >>
  /\ contact_params = {}
  /\ artic = [i \in 1 .. 2 |-> FALSE]
  /\ cpOut = CPPending
  /\ simulation_violated = FALSE
  /\ warnings = 0
  /\ checked = FALSE
  /\ ndet = NumDetectors
  /\ calls = << >>
  /\ groups = << >>
  /\ hooks = << >>

clsVars == <<clsV, clsTol, clsOut>>

cpVars == <<contact_params, artic, cpOut>>

violVars == <<simulation_violated, warnings, checked>>

\* what no action of the step driver changes
fixedVars == <<ndet, groups>>

\* step(): from the entry to the head of the while loop
StepBegin ==
  /\ pc = "idle"
  /\ steps < MaxSteps
  /\ steps' = steps + 1
  /\ step_size' = StepSize
  /\ dt' = StepSize
  /\ q0' = q
  /\ \E nv \in [Bodies -> BodyVels] :
       /\ qd' = nv
       /\ q' = [b \in Bodies |-> q[b] + nv[b] * StepSize]
       /\ qf' = [b \in Bodies |-> q[b] + nv[b] * StepSize]
       /\ qdf' = nv
  /\ pc' = "loop"
  /\ hooks' = << >>
  /\ UNCHANGED <<current_time, h, events, event_tolerances, cand, exc, nproc,
                 clsVars, cpVars, violVars, raw, calls, fixedVars>>

\* variant: the loop has no exit condition
LoopCond_Always(d) == TRUE

\* step(): "while (dt > (double) 0.0)"
LoopCond(d) == d > 0

\* variant: the list of the previous search is kept
ClearEvents_Keep(ev) == ev

\* find_and_handle_si_events(): "_events.clear()"
ClearEvents(ev) == << >>

\* find_and_handle_si_events(dt): entry, up to "_events.clear()"
SearchEnter ==
  /\ pc = "loop"
  /\ LoopCond(dt)
  /\ events' = ClearEvents(events)
  /\ cand' = << >>
  /\ h' = 0
  /\ nproc' = 0
  /\ raw' = << >>
  /\ calls' = << >>
  /\ checked' = CheckGuard(simulation_violated)
  /\ \E cr \in [1 .. ndet -> BOOLEAN] :
       LET r == IF CheckGuard(simulation_violated)
                THEN check_violation(simulation_violated, warnings, cr)
                ELSE [flag |-> simulation_violated, warn |-> warnings]
       IN /\ simulation_violated' = r.flag
          /\ warnings' = r.warn
  /\ pc' = "detect"
  /\ hooks' = << >>
  /\ UNCHANGED <<steps, current_time, q, qd, q0, qf, qdf, dt, step_size,
                 event_tolerances, exc, clsVars, cpVars, fixedVars>>

\* the ways n detectors, called one after the other, can return len events:
\* detector i returns the events cuts[i-1]+1 .. cuts[i]
Splits(len, n) ==
  {c \in [0 .. n -> 0 .. len] :
     /\ c[0] = 0
     /\ c[n] = len
     /\ \A i \in 1 .. n : c[i - 1] <= c[i]}

\* the split in which the first detector returns all the events
FirstSplit(len, n) ==
  IF n = 0
  THEN (IF len = 0 THEN {[i \in 0 .. 0 |-> 0]} ELSE {})
  ELSE {[i \in 0 .. n |-> IF i = 0 THEN 0 ELSE len]}

SplitsFor(len, n, all) == IF all THEN Splits(len, n) ELSE FirstSplit(len, n)

\* the calls of one search in the order the code makes them: every detector
\* of collision_detectors, then find_limit_events (who = 0)
Invocations(cd, cuts, le) ==
  [i \in 1 .. (Cardinality(DOMAIN cuts) - 1) |->
     [who |-> i, out |-> SubSeq(cd, cuts[i - 1] + 1, cuts[i])]]
    \o <<[who |-> 0, out |-> le]>>

\* variant: each result replaces the list instead of being appended to it
ConcatOuts_Replace(cs) == IF cs = << >> THEN << >> ELSE cs[Len(cs)].out

\* "_events.insert(_events.end(), ...)" for each call
RECURSIVE ConcatOuts(_)
ConcatOuts(cs) ==
  IF cs = << >> THEN << >> ELSE Head(cs).out \o ConcatOuts(Tail(cs))

\* find_and_handle_si_events(dt): the detectors, the limit search, the sort,
\* the stamping loop and find_TOI; the detectors return events of CE and the
\* collaborators n events at most, split among the detectors in every way
\* (all) or in the first way
SearchGen(CE, n, all) ==
  /\ pc = "detect"
  /\ \E cd \in SeqsUpTo(CE, n) :
     \E cuts \in SplitsFor(Len(cd), ndet, all) :
     \E le \in LimitLists(dt, n - Len(cd)) :
     \E sorted \in SortOutcomes(events \o ConcatOuts(Invocations(cd, cuts, le))) :
       LET built == StampEvents(sorted, current_time, dt, event_tolerances)
           r == find_TOI(built, dt, q0, qdf, current_time)
       IN /\ calls' = Invocations(cd, cuts, le)
          /\ raw' = events \o ConcatOuts(Invocations(cd, cuts, le))
          /\ cand' = built
          /\ events' = r.events
          /\ h' = r.ret
          /\ qf' = r.qf
          /\ q0' = r.q0
          /\ q' = r.q
          /\ current_time' = r.ct
          /\ event_tolerances' = TableAfterFind(event_tolerances, built)
  /\ checked' = FALSE
  /\ pc' = "found"
  /\ UNCHANGED <<steps, qd, qdf, dt, step_size, exc, nproc, clsVars, cpVars,
                 simulation_violated, warnings, fixedVars, hooks>>

\* the events do not record which detector returned them: the search does
\* the same for every split, and the first detector is taken to return them
SearchFrom(CE, n) == SearchGen(CE, n, FALSE)

SearchWith(n) == SearchFrom(ContactEvents(dt), n)

\* the search with every split of the events among the detectors
SearchBuilt == SearchGen(ApproachingContacts(dt), MaxBuilt, TRUE)

Search == SearchWith(MaxEvents)

SearchHandled == SearchWith(MaxHandled)

SearchCand == SearchWith(MaxCand)

SearchTyped == SearchFrom(TypedEvents(dt), MaxTyped)

\* variant: a group committed at the end of the interval is handled too
ShouldHandle_Le(hh, d) == hh <= d

\* find_and_handle_si_events(): "if (h < dt) handle_events()"
ShouldHandle(hh, d) == hh < d

\* variant: an existing entry is kept (map::insert instead of operator[])
RECURSIVE CatchUpdate_KeepFirst(_, _)
CatchUpdate_KeepFirst(tab, xs) ==
  IF xs = << >> THEN tab
  ELSE CatchUpdate_KeepFirst(
         IF tab[xs[1].id] # NoTol THEN tab
         ELSE [tab EXCEPT ![xs[1].id] = Abs(xs[1].m) + VelEps], Tail(xs))

\* variant: the catch block starts from an empty table
CatchUpdate_Fresh(tab, xs) ==
  CatchUpdate_KeepFirst([id \in DOMAIN tab |-> NoTol], xs)

\* the catch block: one assignment _event_tolerances[*ev] = |event_v| + epsilon
\* per event of the exception, in the order of e.events
RECURSIVE CatchUpdate(_, _)
CatchUpdate(tab, xs) ==
  IF xs = << >> THEN tab
  ELSE CatchUpdate([tab EXCEPT ![xs[1].id] = Abs(xs[1].m) + VelEps], Tail(xs))

\* variant: the resolver is called until it has raised three times
ProcessCount_Thrice(raised) == IF raised THEN 3 ELSE 1

\* variant: the resolver is called again after the catch block
ProcessCount_Retry(raised) == IF raised THEN 2 ELSE 1

\* number of process_events() calls one handle_events() makes: the call in
\* the try block, and nothing after the catch block
ProcessCount(raised) == 1

\* what an ImpactToleranceException can carry: pointers to distinct events of
\* _events, in any order, each with the velocity calc_event_vel() measures
ExceptionPayloads(ev) ==
  {xs \in SeqsUpTo([idx : 1 .. Len(ev), id : Ids, m : MeasVels],
                   IF Len(ev) < MaxExc THEN Len(ev) ELSE MaxExc) :
     /\ xs # << >>
     /\ \A i \in 1 .. Len(xs) : xs[i].id = EventIdentity(ev[xs[i].idx])
     /\ \A i, j \in 1 .. Len(xs) : i # j => xs[i].idx # xs[j].idx}

\* n copies of a label
Repeat(x, n) == [i \in 1 .. n |-> x]

\* variant: the exception leaves handle_events before the last callback
HandleTrace_Unwind(ev, n, raised) ==
  <<"event_callback">> \o Repeat("preprocess_event", Len(ev))
    \o Repeat("process_events", n)
    \o (IF raised THEN << >> ELSE <<"post_impulse_callback">>)

\* the calls of one handle_events, in order: the event callback, one
\* preprocess_event per event, process_events, the post-impulse callback
HandleTrace(ev, n, raised) ==
  <<"event_callback">> \o Repeat("preprocess_event", Len(ev))
    \o Repeat("process_events", n) \o <<"post_impulse_callback">>

\* the calls made when the assertion of preprocess_event fails at an event
AbortTrace(ev) ==
  LET k == CHOOSE i \in DOMAIN ev :
             PreprocessAborts(ev[i]) /\ \A j \in 1 .. (i - 1) : ~PreprocessAborts(ev[j])
  IN <<"event_callback">> \o Repeat("preprocess_event", k)

\* handle_events(), the resolver returning normally
HandleEventsOk ==
  /\ pc = "found"
  /\ ShouldHandle(h, dt)
  /\ \A i \in DOMAIN events : ~PreprocessAborts(events[i])
  /\ events' = PreprocessAll(events, contact_params, artic)
  /\ \E nv \in [Bodies -> BodyVels] : qd' = nv
  /\ nproc' = ProcessCount(FALSE)
  /\ exc' = << >>
  /\ cand' = << >>
  /\ raw' = << >>
  /\ calls' = << >>
  /\ pc' = "ret"
  /\ hooks' = hooks \o HandleTrace(events, ProcessCount(FALSE), FALSE)
  /\ UNCHANGED <<steps, current_time, q, q0, qf, qdf, dt, step_size, h,
                 event_tolerances, clsVars, cpVars, violVars, fixedVars>>

\* handle_events(), the resolver raising ImpactToleranceException
HandleEventsViolation ==
  /\ pc = "found"
  /\ ShouldHandle(h, dt)
  /\ \A i \in DOMAIN events : ~PreprocessAborts(events[i])
  /\ events' = PreprocessAll(events, contact_params, artic)
  /\ \E nv \in [Bodies -> BodyVels] : qd' = nv
  /\ \E xs \in ExceptionPayloads(events) :
       /\ exc' = xs
       /\ event_tolerances' = CatchUpdate(event_tolerances, xs)
  /\ nproc' = ProcessCount(TRUE)
  /\ cand' = << >>
  /\ raw' = << >>
  /\ calls' = << >>
  /\ pc' = "ret"
  /\ hooks' = hooks \o HandleTrace(events, ProcessCount(TRUE), TRUE)
  /\ UNCHANGED <<steps, current_time, q, q0, qf, qdf, dt, step_size, h,
                 clsVars, cpVars, violVars, fixedVars>>

\* handle_events(), the assertion of preprocess_event failing on an event:
\* the process is aborted before the resolver is reached
HandleEventsAbort ==
  /\ pc = "found"
  /\ ShouldHandle(h, dt)
  /\ \E i \in DOMAIN events : PreprocessAborts(events[i])
  /\ pc' = "aborted"
  /\ hooks' = hooks \o AbortTrace(events)
  /\ UNCHANGED <<steps, current_time, q, qd, q0, qf, qdf, dt, step_size, h,
                 events, event_tolerances, cand, exc, nproc, clsVars, cpVars,
                 violVars, raw, calls, fixedVars>>

\* find_and_handle_si_events(): "if (h < dt)" is false, return h
SkipHandle ==
  /\ pc = "found"
  /\ ~ShouldHandle(h, dt)
  /\ nproc' = 0
  /\ exc' = << >>
  /\ cand' = << >>
  /\ raw' = << >>
  /\ calls' = << >>
  /\ pc' = "ret"
  /\ UNCHANGED <<steps, current_time, q, qd, q0, qf, qdf, dt, step_size, h,
                 events, event_tolerances, clsVars, cpVars, violVars, fixedVars, hooks>>

\* variant: the loop is also left when the locator used up the interval
BreakCond_Ge(t, d) == t >= d

\* step(): "if (t > dt)"
BreakCond(t, d) == t > d

\* step(): "if (t > dt) break"
Break ==
  /\ pc = "ret"
  /\ BreakCond(h, dt)
  /\ exc' = << >>
  /\ pc' = "post"
  /\ UNCHANGED <<steps, current_time, q, qd, q0, qf, qdf, dt, step_size, h,
                 events, event_tolerances, cand, nproc, clsVars, cpVars, violVars, raw, calls, fixedVars, hooks>>

\* variant: the time is added to the remaining interval
Remaining_Grow(d, t) == d + t

\* variant: the remaining interval is not reduced
Remaining_Keep(d, t) == d

\* "dt -= t"
Remaining(d, t) == d - t

\* step(): the rest of the loop body
LoopTail ==
  /\ pc = "ret"
  /\ ~BreakCond(h, dt)
  /\ dt' = Remaining(dt, h)
  /\ qdf' = qd
  /\ qf' = [b \in Bodies |-> qd[b] * Remaining(dt, h) + q0[b]]
  /\ exc' = << >>
  /\ pc' = "loop"
  /\ hooks' = Append(hooks, "post_mini_step")
  /\ UNCHANGED <<steps, current_time, q, qd, q0, step_size, h, events,
                 event_tolerances, cand, nproc, clsVars, cpVars, violVars, raw, calls, fixedVars>>

\* step(): the loop condition "dt > 0" is false
LoopExit ==
  /\ pc = "loop"
  /\ ~LoopCond(dt)
  /\ pc' = "post"
  /\ UNCHANGED <<steps, current_time, q, qd, q0, qf, qdf, dt, step_size, h,
                 events, event_tolerances, cand, exc, nproc, clsVars, cpVars, violVars, raw, calls, fixedVars, hooks>>

\* step(): post-step callback and return step_size
StepEnd ==
  /\ pc = "post"
  /\ pc' = "idle"
  /\ hooks' = Append(hooks, "post_step")
  /\ UNCHANGED <<steps, current_time, q, qd, q0, qf, qdf, dt, step_size, h,
                 events, event_tolerances, cand, exc, nproc, clsVars, cpVars, violVars, raw, calls, fixedVars>>

Next ==
  \/ StepBegin
  \/ SearchEnter
  \/ Search
  \/ HandleEventsOk
  \/ HandleEventsViolation
  \/ SkipHandle
  \/ Break
  \/ LoopTail
  \/ LoopExit
  \/ StepEnd

Spec == Init /\ [][Next]_vars

\* ---- a later step: the simulator between two step() calls, with a
\* tolerance learned for the geometry pair in an earlier step -----------------
InitLater ==
  /\ pc = "idle"
  /\ steps = 0
  /\ current_time = StepSize
  /\ q = [b \in Bodies |-> InitQ]
  /\ qd = [b \in Bodies |-> 1]
  /\ q0 = [b \in Bodies |-> InitQ]
  /\ qf = [b \in Bodies |-> InitQ]
  /\ qdf = [b \in Bodies |-> 1]
  /\ dt = 0
  /\ step_size = StepSize
  /\ h = INF
  /\ events = << >>
  /\ event_tolerances =
       [id \in Ids |-> IF id \in ContactIds THEN VelUnit + VelEps ELSE NoTol]
  /\ cand = << >>
  /\ exc = << >>
  /\ nproc = 0
  /\ clsV = 0
  /\ clsTol = 0
  /\ clsOut = "pending"
  /\ raw = << >>
  /\ contact_params = {}
  /\ artic = [i \in 1 .. 2 |-> FALSE]
  /\ cpOut = CPPending
  /\ simulation_violated = FALSE
  /\ warnings = 0
  /\ checked = FALSE
  /\ ndet = NumDetectors
  /\ calls = << >>
  /\ groups = << >>
  /\ hooks = << >>

SpecLater == InitLater /\ [][Next]_vars

\* ---- one search, one handling, from a state inside a step ---------------
\* States at the head of find_and_handle_si_events inside a step of size
\* StepSize: the remaining interval d, the tolerances learned so far, the
\* bodies at the start of the remaining interval with the end velocity v.
InitCtx(dts, tabs, vels, cps, nds) ==
  /\ pc = "detect"
  /\ steps = 1
  /\ step_size = StepSize
  /\ dt \in dts
  /\ current_time = StepSize - dt
  /\ event_tolerances \in tabs
  /\ \E v \in vels :
       /\ qd = v
       /\ qdf = v
       /\ q0 = [b \in Bodies |-> InitQ]
       /\ q = [b \in Bodies |-> InitQ]
       /\ qf = [b \in Bodies |-> InitQ + v[b] * dt]
  /\ h = 0
  /\ events = << >>
  /\ cand = << >>
  /\ exc = << >>
  /\ nproc = 0
  /\ clsV = 0
  /\ clsTol = 0
  /\ clsOut = "pending"
  /\ raw = << >>
  /\ contact_params \in cps
  /\ artic = [i \in 1 .. 2 |-> FALSE]
  /\ cpOut = CPPending
  /\ simulation_violated = FALSE
  /\ warnings = 0
  /\ checked = TRUE
  /\ ndet \in nds
  /\ calls = << >>
  /\ groups = << >>
  /\ hooks = << >>

InitTOI ==
  InitCtx({StepSize \div 2}, {[id \in Ids |-> NoTol]}, {[b \in Bodies |-> 1]},
          {{}}, {NumDetectors})

NextTOI == SearchCand

SpecTOI == InitTOI /\ [][NextTOI]_vars

InitHandle ==
  InitCtx({StepSize},
          {[id \in Ids |-> NoTol], [id \in Ids |-> VelUnit + VelEps],
           [id \in Ids |-> IF id \in ContactIds THEN VelUnit + VelEps
                           ELSE NoTol]},
          {[b \in Bodies |-> 1]}, {{}, {KeySBSB}}, {NumDetectors})

NextHandle ==
  \/ SearchHandled
  \/ HandleEventsOk
  \/ HandleEventsViolation
  \/ SkipHandle

SpecHandle == InitHandle /\ [][NextHandle]_vars

\* ---- the builder with any number of registered detectors -----------------
InitBuild ==
  InitCtx({StepSize \div 2}, {[id \in Ids |-> NoTol]}, {[b \in Bodies |-> 1]},
          {{}}, 0 .. NumDetectors)

NextBuild == SearchBuilt

SpecBuild == InitBuild /\ [][NextBuild]_vars

\* ---- handling when the detectors return events of any type ---------------
InitTypes ==
  InitCtx({StepSize}, {[id \in Ids |-> NoTol]}, {[b \in Bodies |-> 1]}, {{}},
          {NumDetectors})

NextTypes ==
  \/ SearchTyped
  \/ HandleEventsOk
  \/ HandleEventsViolation
  \/ HandleEventsAbort
  \/ SkipHandle

SpecTypes == InitTypes /\ [][NextTypes]_vars

\* ---- one step(StepSize) call, from the head of its loop to its return ----
InitStep ==
  /\ InitCtx({StepSize}, {[id \in Ids |-> NoTol]}, {[b \in Bodies |-> 1]}, {{}},
          {NumDetectors})

NextStep ==
  \/ Search
  \/ HandleEventsOk
  \/ HandleEventsViolation
  \/ SkipHandle
  \/ Break
  \/ LoopTail
  \/ SearchEnter
  \/ LoopExit
  \/ StepEnd

\* step() is sequential code: whenever a statement can run, it does
SpecStep == InitStep /\ [][NextStep]_vars /\ WF_vars(NextStep)

\* ---- get_contact_parameters on its own -----------------------------------
InitParams ==
  /\ pc = "idle"
  /\ steps = 0
  /\ current_time = 0
  /\ q = [b \in Bodies |-> InitQ]
  /\ qd = [b \in Bodies |-> 1]
  /\ q0 = [b \in Bodies |-> InitQ]
  /\ qf = [b \in Bodies |-> InitQ]
  /\ qdf = [b \in Bodies |-> 1]
  /\ dt = 0
  /\ step_size = 0
  /\ h = 0
  /\ events = << >>
  /\ event_tolerances = [id \in Ids |-> NoTol]
  /\ cand = << >>
  /\ exc = << >>
  /\ nproc = 0
  /\ clsV = 0
  /\ clsTol = 0
  /\ clsOut = "pending"
  /\ raw = << >>
  /\ contact_params \in SUBSET CPKeys
  /\ artic \in [1 .. 2 -> BOOLEAN]
  /\ cpOut = CPPending
  /\ simulation_violated = FALSE
  /\ warnings = 0
  /\ checked = FALSE
  /\ ndet = NumDetectors
  /\ calls = << >>
  /\ groups = << >>
  /\ hooks = << >>

LookupParams ==
  /\ cpOut = CPPending
  /\ cpOut' = get_contact_parameters(contact_params, artic)
  /\ UNCHANGED <<pc, steps, current_time, q, qd, q0, qf, qdf, dt, step_size,
                 h, events, event_tolerances, cand, exc, nproc, clsVars,
                 contact_params, artic, violVars, raw, calls, fixedVars, hooks>>

NextParams == LookupParams

SpecParams == InitParams /\ [][NextParams]_vars

\* ---- determine_event_class on its own ------------------------------------
ClsVels == (0 - MaxClsVel) .. MaxClsVel
ClsTols == 0 .. MaxClsTol

InitClass ==
  /\ pc = "idle"
  /\ steps = 0
  /\ current_time = 0
  /\ q = [b \in Bodies |-> InitQ]
  /\ qd = [b \in Bodies |-> 1]
  /\ q0 = [b \in Bodies |-> InitQ]
  /\ qf = [b \in Bodies |-> InitQ]
  /\ qdf = [b \in Bodies |-> 1]
  /\ dt = 0
  /\ step_size = 0
  /\ h = 0
  /\ events = << >>
  /\ event_tolerances = [id \in Ids |-> NoTol]
  /\ cand = << >>
  /\ exc = << >>
  /\ nproc = 0
  /\ clsV \in ClsVels
  /\ clsTol \in ClsTols
  /\ clsOut = "pending"
  /\ raw = << >>
  /\ contact_params = {}
  /\ artic = [i \in 1 .. 2 |-> FALSE]
  /\ cpOut = CPPending
  /\ simulation_violated = FALSE
  /\ warnings = 0
  /\ checked = FALSE
  /\ ndet = NumDetectors
  /\ calls = << >>
  /\ groups = << >>
  /\ hooks = << >>

Classify ==
  /\ clsOut = "pending"
  /\ clsOut' = DetermineEventClass(clsV, clsTol)
  /\ UNCHANGED <<pc, steps, current_time, q, qd, q0, qf, qdf, dt, step_size,
                 h, events, event_tolerances, cand, exc, nproc, clsV, clsTol,
                 cpVars, violVars, raw, calls, fixedVars, hooks>>

NextClass == Classify

SpecClass == InitClass /\ [][NextClass]_vars

\* ---- manifold reduction on its own ---------------------------------------
\* contact points of a coplanar group, in coordinates of the common plane
GridPoints == [x : 0 .. GridX, y : 0 .. GridY]

Cross(a, b, c) == (b.x - a.x) * (c.y - a.y) - (b.y - a.y) * (c.x - a.x)

\* p lies on the segment from a to b
OnSegment(p, a, b) ==
  /\ Cross(a, b, p) = 0
  /\ (p.x - a.x) * (p.x - b.x) <= 0
  /\ (p.y - a.y) * (p.y - b.y) <= 0

\* p lies in the triangle a, b, c, its boundary included
InTriangle(p, a, b, c) ==
  /\ Cross(a, b, c) # 0
  /\ \/ Cross(a, b, p) >= 0 /\ Cross(b, c, p) >= 0 /\ Cross(c, a, p) >= 0
     \/ Cross(a, b, p) <= 0 /\ Cross(b, c, p) <= 0 /\ Cross(c, a, p) <= 0

\* p lies in the convex hull of the other points of S
Covered(p, S) ==
  \/ \E a, b \in S \ {p} : OnSegment(p, a, b)
  \/ \E a, b, c \in S \ {p} : InTriangle(p, a, b, c)

\* variant: the points inside the hull are the ones kept
IsHullVertex_Inside(p, S) == Covered(p, S)

\* p is a vertex of the convex hull of S
IsHullVertex(p, S) == ~Covered(p, S)

PointsOf(g) == {g[i] : i \in DOMAIN g}

\* the events of the group that stay: those at a hull vertex, one per point
RECURSIVE KeepFrom(_, _)
KeepFrom(g, i) ==
  IF i > Len(g) THEN << >>
  ELSE IF /\ IsHullVertex(g[i], PointsOf(g))
          /\ \A j \in 1 .. (i - 1) : g[j] # g[i]
       THEN <<g[i]>> \o KeepFrom(g, i + 1)
       ELSE KeepFrom(g, i + 1)

determine_convex_set(g) == KeepFrom(g, 1)

determine_minimal_set(g) == determine_convex_set(g)

InitManifold ==
  /\ pc = "idle"
  /\ steps = 0
  /\ current_time = 0
  /\ q = [b \in Bodies |-> InitQ]
  /\ qd = [b \in Bodies |-> 1]
  /\ q0 = [b \in Bodies |-> InitQ]
  /\ qf = [b \in Bodies |-> InitQ]
  /\ qdf = [b \in Bodies |-> 1]
  /\ dt = 0
  /\ step_size = StepSize
  /\ h = INF
  /\ events = << >>
  /\ event_tolerances = [id \in Ids |-> NoTol]
  /\ cand = << >>
  /\ exc = << >>
  /\ nproc = 0
  /\ clsV = 0
  /\ clsTol = 0
  /\ clsOut = "pending"
  /\ raw = << >>
  /\ contact_params = {}
  /\ artic = [i \in 1 .. 2 |-> FALSE]
  /\ cpOut = CPPending
  /\ simulation_violated = FALSE
  /\ warnings = 0
  /\ checked = FALSE
  /\ ndet = NumDetectors
  /\ calls = << >>
  /\ \E g \in SeqsUpTo(GridPoints, MaxGroup) : groups = <<g>>
  /\ hooks = << >>

\* one more call of determine_minimal_set on the group it left
Reduce ==
  /\ Len(groups) < MaxReduce + 1
  /\ groups' = Append(groups, determine_minimal_set(groups[Len(groups)]))
  /\ UNCHANGED <<pc, steps, current_time, q, qd, q0, qf, qdf, dt, step_size, h,
                 events, event_tolerances, cand, exc, nproc, clsVars, cpVars,
                 violVars, raw, calls, ndet, hooks>>

NextManifold == Reduce

SpecManifold == InitManifold /\ [][NextManifold]_vars

\* ---- determine_connected_events on its own -------------------------------
\* the super bodies (articulated body, or the rigid body when there is none)
SuperBodies == 1 .. NumSuper

\* what get_super_bodies can return for one event: one body or two
BodySets == {S \in SUBSET SuperBodies : Cardinality(S) \in {1, 2}}

\* the events of the input vector, each with its position and its super bodies
EventsOn(bs) == [i \in DOMAIN bs |-> [k |-> i, sb |-> bs[i]]]

MinOf(S) == CHOOSE x \in S : \A y \in S : x <= y

\* variant: only the bodies of the event are relabelled, not their sets
UnionBodies_Shallow(rep, S) ==
  [x \in DOMAIN rep |-> IF x \in S THEN rep[MinOf(S)] ELSE rep[x]]

\* union of the sets of the bodies of one event
UnionBodies(rep, S) ==
  [x \in DOMAIN rep |->
     IF \E b \in S : rep[x] = rep[b] THEN rep[MinOf(S)] ELSE rep[x]]

\* the union-find structure after the events i .. Len(g)
RECURSIVE UnionAll(_, _, _)
UnionAll(rep, g, i) ==
  IF i > Len(g) THEN rep ELSE UnionAll(UnionBodies(rep, g[i].sb), g, i + 1)

\* the events whose first super body is in the set of r, in input order
RECURSIVE EventsOfSet(_, _, _, _)
EventsOfSet(rep, g, r, i) ==
  IF i > Len(g) THEN << >>
  ELSE IF rep[MinOf(g[i].sb)] = r
       THEN <<g[i]>> \o EventsOfSet(rep, g, r, i + 1)
       ELSE EventsOfSet(rep, g, r, i + 1)

\* one group per set that has events
RECURSIVE GroupsFrom(_, _, _)
GroupsFrom(rep, g, r) ==
  IF r > NumSuper THEN << >>
  ELSE IF EventsOfSet(rep, g, r, 1) = << >> THEN GroupsFrom(rep, g, r + 1)
       ELSE <<EventsOfSet(rep, g, r, 1)>> \o GroupsFrom(rep, g, r + 1)

determine_connected_events(g) ==
  GroupsFrom(UnionAll([x \in SuperBodies |-> x], g, 1), g, 1)

InitConnected ==
  /\ pc = "idle"
  /\ steps = 0
  /\ current_time = 0
  /\ q = [b \in Bodies |-> InitQ]
  /\ qd = [b \in Bodies |-> 1]
  /\ q0 = [b \in Bodies |-> InitQ]
  /\ qf = [b \in Bodies |-> InitQ]
  /\ qdf = [b \in Bodies |-> 1]
  /\ dt = 0
  /\ step_size = StepSize
  /\ h = INF
  /\ events = << >>
  /\ event_tolerances = [id \in Ids |-> NoTol]
  /\ cand = << >>
  /\ exc = << >>
  /\ nproc = 0
  /\ clsV = 0
  /\ clsTol = 0
  /\ clsOut = "pending"
  /\ raw = << >>
  /\ contact_params = {}
  /\ artic = [i \in 1 .. 2 |-> FALSE]
  /\ cpOut = CPPending
  /\ simulation_violated = FALSE
  /\ warnings = 0
  /\ checked = FALSE
  /\ ndet = NumDetectors
  /\ calls = << >>
  /\ \E bs \in SeqsUpTo(BodySets, MaxConn) : groups = <<EventsOn(bs)>>
  /\ hooks = << >>

\* one call: the input vector, followed by the groups made of it
Connect ==
  /\ pc = "idle"
  /\ groups' = groups \o determine_connected_events(groups[1])
  /\ pc' = "ret"
  /\ UNCHANGED <<steps, current_time, q, qd, q0, qf, qdf, dt, step_size, h,
                 events, event_tolerances, cand, exc, nproc, clsVars, cpVars,
                 violVars, raw, calls, ndet, hooks>>

NextConnected == Connect

SpecConnected == InitConnected /\ [][NextConnected]_vars

\* ---- properties ----------------------------------------------------------
\* the walk of section 4.3: the time of the earliest group, formed from the
\* head of the unprocessed candidates, that holds an impacting event
RECURSIVE WalkTOI(_, _, _)
WalkTOI(ev, c, d) ==
  IF c > Len(ev) THEN INF
  ELSE LET tmin == ScaledTime(ev[c].t, d)
           c2 == GroupEnd(ev, c + 1, tmin, d)
       IN IF tmin > d THEN INF
          ELSE IF \E i \in c .. (c2 - 1) : is_impacting(ev[i]) THEN tmin
          ELSE WalkTOI(ev, c2, d)

EndPosition == [b \in Bodies |-> q0[b] + qdf[b] * dt]

\* C1: when some candidate with t*dt <= dt is Impacting, find_TOI returns the
\* time of the earliest group holding an Impacting event, also when
\* non-impacting groups precede it (only the processed group is discarded).
C1_EarliestImpactingGroup ==
  (pc = "found" /\ \E i \in DOMAIN cand :
      is_impacting(cand[i]) /\ ScaledTime(cand[i].t, dt) <= dt)
    => h = WalkTOI(cand, 1, dt)

\* C2: when find_TOI returns h < dt, the event set it leaves holds at least
\* one Impacting event.
C2_TruncationHasImpact ==
  (pc = "found" /\ h < dt) => \E i \in DOMAIN events : is_impacting(events[i])

C2_Witness ==
  /\ pc = "found"
  /\ ShouldHandle(h, dt)
  /\ Len(events) >= 2
  /\ Len(cand) > Len(events)
  /\ \E i \in DOMAIN events : ~is_impacting(events[i])

\* C3: when find_TOI returns h equal to dt, the event set it leaves holds no
\* Impacting event (in particular for a group at normalized time 1).
C3_SentinelHasNoImpact ==
  (pc = "found" /\ h = dt) => \A i \in DOMAIN events : ~is_impacting(events[i])

\* C4 as stated: find_TOI never returns a value greater than dt, the result
\* for "no blocking event" included.
C4_NeverAboveDt == pc = "found" => h <= dt

\* C4 amended: when find_TOI commits a group it returns h with 0 <= h <= dt;
\* when there is no blocking event it leaves no events and returns the
\* sentinel INF, which is greater than dt.
C4_CommittedWithinDt ==
  pc = "found" =>
    \/ events # << >> /\ 0 <= h /\ h <= dt
    \/ events = << >> /\ h = INF /\ h > dt

C4_Witness == pc = "found" /\ events # << >> /\ h = dt /\ Len(cand) >= 2

\* C5: a step whose first search gets zero candidates advances the time by
\* exactly dt and leaves every body at the provisional end state of the
\* full-interval integration (start coordinates + end velocity * dt).
C5_EmptySearchKeepsEndState ==
  [][(pc = "detect" /\ pc' = "found" /\ cand' = << >>
        /\ dt = step_size /\ q = qf)
      => (q' = q /\ q' = EndPosition /\ current_time' = current_time + dt)]_vars

\* C6: when find_TOI reports no blocking event on a non-empty candidate list
\* (first candidate beyond dt, or walk exhausted), the event list is empty,
\* every body is at start coordinates + cached end velocity * dt, and
\* current_time has advanced by exactly dt.
C6_NoEventExitsAgree ==
  [][(pc = "detect" /\ pc' = "found" /\ cand' # << >> /\ h' = INF)
      => (events' = << >> /\ q' = EndPosition
            /\ current_time' = current_time + dt)]_vars

ExcIds(xs) == {xs[i].id : i \in DOMAIN xs}

LastOf(xs, id) ==
  xs[CHOOSE i \in DOMAIN xs :
       xs[i].id = id /\ \A j \in DOMAIN xs : xs[j].id = id => j <= i]

\* C8 as stated: on a tolerance violation naming S, the entry of the identity
\* of each event in S is |measured velocity of that event| + epsilon, and the
\* entry of every other identity is unchanged.
C8_EachEventRecorded ==
  [][(pc = "found" /\ pc' = "ret" /\ exc' # << >>) =>
       /\ \A i \in DOMAIN exc' :
            /\ exc'[i].id = EventIdentity(events[exc'[i].idx])
            /\ event_tolerances'[exc'[i].id] = Abs(exc'[i].m) + VelEps
       /\ \A id \in Ids \ ExcIds(exc') :
            event_tolerances'[id] = event_tolerances[id]]_vars

\* C8 amended: the entry of each identity occurring in S is |measured
\* velocity| + epsilon of the last event of S with that identity, and the
\* entry of every identity not occurring in S is unchanged.
C8_LastEventRecorded ==
  [][(pc = "found" /\ pc' = "ret" /\ exc' # << >>) =>
       /\ \A i \in DOMAIN exc' :
            exc'[i].id = EventIdentity(events[exc'[i].idx])
       /\ \A id \in ExcIds(exc') :
            event_tolerances'[id] = Abs(LastOf(exc', id).m) + VelEps
       /\ \A id \in Ids \ ExcIds(exc') :
            event_tolerances'[id] = event_tolerances[id]]_vars

C8_Witness ==
  /\ pc = "ret"
  /\ Len(exc) = 2
  /\ exc[1].id = exc[2].id
  /\ Abs(exc[1].m) # Abs(exc[2].m)
  /\ event_tolerances[exc[2].id] = Abs(exc[2].m) + VelEps

\* the measured velocity the table holds for the identity of e covers e
CoveredByLearned(e) ==
  /\ event_tolerances[EventIdentity(e)] # NoTol
  /\ Abs(calc_event_vel(e)) <= event_tolerances[EventIdentity(e)] - VelEps

\* C9: once a tolerance violation has recorded measured velocity m for an
\* identity, an event of that identity built by a later search with |v| <= m
\* is Resting, not Impacting, and such events alone do not make find_TOI
\* truncate the interval.
C9_LearnedToleranceRests ==
  pc = "found" =>
    /\ \A i \in DOMAIN cand :
         CoveredByLearned(cand[i])
           => is_resting(cand[i]) /\ ~is_impacting(cand[i])
    /\ (\A i \in DOMAIN cand : CoveredByLearned(cand[i])) => h = INF

C9_Witness ==
  /\ pc = "found"
  /\ \E i \in DOMAIN cand :
       /\ CoveredByLearned(cand[i])
       /\ calc_event_vel(cand[i]) < 0 - DefaultTol
  /\ h = INF

\* C10: determine_event_class returns Separating iff v > tol, Resting iff
\* |v| <= tol, Impacting iff v < -tol, never Undetermined, so exactly one of
\* is_impacting, is_resting, is_separating holds.
C10_ClassIsTotal ==
  clsOut # "pending" =>
    LET e == [v |-> clsV, tol |-> clsTol] IN
    /\ (clsOut = "eSeparating") <=> (clsV > clsTol)
    /\ (clsOut = "eResting") <=> (Abs(clsV) <= clsTol)
    /\ (clsOut = "eImpacting") <=> (clsV < 0 - clsTol)
    /\ clsOut # "eUndetermined"
    /\ determine_event_class(e) = clsOut
    /\ Cardinality({k \in 1 .. 3 :
          \/ k = 1 /\ is_impacting(e)
          \/ k = 2 /\ is_resting(e)
          \/ k = 3 /\ is_separating(e)}) = 1

C10_Witness ==
  clsOut = "eResting" /\ clsTol > 0 /\ (clsV = clsTol \/ clsV = 0 - clsTol)

\* an event as the collaborator returned it, before the stamping loop
Unstamped(e) == [e EXCEPT !.t_true = 0, !.tol = DefaultTol]

\* s holds the events of r, each once
IsArrangementOf(s, r) ==
  /\ Len(s) = Len(r)
  /\ \E p \in IndexPerms(Len(r)) :
       \A i \in DOMAIN s : Unstamped(s[i]) = r[p[i]]

\* C11: every event set the builder produces is in non-decreasing order of
\* normalized time t, whatever the order in which the detectors and the limit
\* search returned the events.
C11_BuiltSorted ==
  pc = "found" =>
    /\ IsArrangementOf(cand, raw)
    /\ \A i, j \in DOMAIN cand : i < j => cand[i].t <= cand[j].t

C11_Witness ==
  /\ pc = "found"
  /\ Len(raw) = 3
  /\ raw[1].t > raw[2].t
  /\ raw[2].t > raw[3].t
  /\ raw[1].type = "eContact"
  /\ raw[3].type = "eLimit"

\* s is r sorted by t with equal-t events in the order they have in r
IsStableSortOf(s, r) ==
  /\ Len(s) = Len(r)
  /\ \E p \in IndexPerms(Len(r)) :
       /\ \A i \in DOMAIN s : s[i] = r[p[i]]
       /\ \A i, j \in DOMAIN s :
            i < j => \/ r[p[i]].t < r[p[j]].t
                     \/ r[p[i]].t = r[p[j]].t /\ p[i] < p[j]

\* C12: the builder's sort is stable: events with exactly equal t keep, in the
\* built sequence, the relative order they had in the concatenation, so the
\* built sequence is a function of the collaborators' outputs.
C12_SortIsStable ==
  pc = "found" =>
    IsStableSortOf([i \in DOMAIN cand |-> Unstamped(cand[i])], raw)

\* C13: two candidates with equal normalized time are never split: when
\* find_TOI commits a set holding one of them, the set holds the other,
\* whatever their identities and their order in the list.
C13_EqualTimesTogether ==
  (pc = "found" /\ events # << >>) =>
    /\ Len(events) <= Len(cand)
    /\ events = SubSeq(cand, 1, Len(events))
    /\ \A i, j \in DOMAIN cand :
         (cand[i].t = cand[j].t /\ i <= Len(events)) => j <= Len(events)

C13_Witness ==
  /\ pc = "found"
  /\ Len(events) = 2
  /\ Len(cand) = 3
  /\ events[1].t = events[2].t
  /\ events[1].id # events[2].id
  /\ is_impacting(events[2])
  /\ ~is_impacting(events[1])
\* the lookup level of a key, in the order of the documentation
Level(k) ==
  IF k = KeyGG THEN 1
  ELSE IF k \in {KeyG1SB2, KeyG2SB1} THEN 2
  ELSE IF k = KeySBSB THEN 3
  ELSE IF k \in {KeyG2AB1, KeyG1AB2} THEN 4
  ELSE IF k \in {KeySB2AB1, KeySB1AB2} THEN 5
  ELSE 6

\* the bodies the key names exist for the pair
KeyExists(k, ab) == ("ab1" \in k => ab[1]) /\ ("ab2" \in k => ab[2])

\* some entry of level l is registered for the pair
LevelMatches(tab, ab, l) ==
  \E k \in tab : Level(k) = l /\ KeyExists(k, ab)

\* C14: get_contact_parameters returns the entry of the first matching level
\* in the order (geometry, geometry), (geometry, body), (body, body),
\* (geometry, articulated), (body, articulated), (articulated, articulated):
\* an entry of a later level only if no earlier level matches, and the empty
\* result only if no level matches.
C14_FirstLevelWins ==
  cpOut # CPPending =>
    /\ (cpOut = NoParams) <=>
         (\A l \in 1 .. 6 : ~LevelMatches(contact_params, artic, l))
    /\ cpOut # NoParams =>
         /\ cpOut \in contact_params
         /\ KeyExists(cpOut, artic)
         /\ \A l \in 1 .. (Level(cpOut) - 1) :
              ~LevelMatches(contact_params, artic, l)

\* C15: when no contact parameters are registered at any level for the pair
\* of a contact event, handle_events leaves the event's parameters at their
\* prior (default) values, raises no error, preprocesses the other events and
\* invokes the resolver on the full event set.
C15_MissingParamsKeepDefaults ==
  [][(pc = "found" /\ h < dt
        /\ \A l \in 1 .. 6 : ~LevelMatches(contact_params, artic, l))
      => /\ pc' = "ret"
         /\ nproc' = 1
         /\ Len(events') = Len(events)
         /\ \A i \in DOMAIN events :
              /\ events'[i] = events[i]
              /\ events'[i].params = DefaultParams]_vars

C15_Witness ==
  /\ pc = "ret"
  /\ nproc = 1
  /\ contact_params = {}
  /\ Len(events) = 2
  /\ events[1].type = "eContact"
  /\ events[1].params = DefaultParams
  /\ events[2].type = "eLimit"

\* C16: no committed event set makes the core abort: for events of every type
\* (none, contact, limit, constraint) handle_events reaches the resolver
\* without a failed assertion.
C16_NoAbort == pc # "aborted"

C18_ViolationReportedOnce ==
  /\ [](warnings <= 1 /\ (warnings = 1 <=> simulation_violated))
  /\ [][/\ simulation_violated => simulation_violated'
        /\ warnings' # warnings =>
             (~simulation_violated /\ simulation_violated'
                /\ warnings' = warnings + 1)
        /\ (pc = "loop" /\ pc' = "detect") =>
             (checked' <=> ~simulation_violated)
        /\ (pc = "detect" /\ simulation_violated) =>
             (pc' = "found" /\ IsArrangementOf(cand', raw'))]_vars

C18_Witness ==
  /\ pc = "idle"
  /\ steps = 1
  /\ simulation_violated
  /\ warnings = 1
  /\ dt < step_size
  /\ event_tolerances # [id \in Ids |-> NoTol]

\* C19: every event built by a search over dt that starts at current_time is
\* stamped t_true = current_time + t*dt, so t in [0,1] gives current_time <=
\* t_true <= current_time + dt, and when find_TOI commits a group, current_time
\* on return is the t_true of the group's earliest event.
C19_AbsoluteTimeStamped ==
  [][(pc = "detect" /\ pc' = "found") =>
       /\ \A i \in DOMAIN cand' :
            /\ cand'[i].t_true = current_time + ScaledTime(cand'[i].t, dt)
            /\ cand'[i].t \in 0 .. TDen =>
                 (current_time <= cand'[i].t_true
                    /\ cand'[i].t_true <= current_time + dt)
       /\ events' # << >> =>
            /\ current_time' = events'[1].t_true
            /\ \A i \in DOMAIN events' :
                 events'[1].t_true <= events'[i].t_true]_vars

C19_Witness ==
  /\ pc = "found"
  /\ events # << >>
  /\ h > 0
  /\ dt < step_size
  /\ current_time = events[1].t_true
  /\ current_time = step_size - dt + h

\* C20: the tolerance table is mutated only by handle_events on a tolerance
\* violation: the builder and find_TOI only read it, so a step in which the
\* resolver raises no violation leaves the table as it was.
C20_TableWrittenOnlyOnViolation ==
  [][/\ event_tolerances' # event_tolerances =>
          (pc = "found" /\ pc' = "ret" /\ exc' # << >>)
     /\ (pc = "detect" /\ pc' = "found") =>
          event_tolerances' = event_tolerances]_vars

C20_Witness ==
  /\ pc = "found"
  /\ \E i \in DOMAIN cand :
       /\ event_tolerances[EventIdentity(cand[i])] # NoTol
       /\ cand[i].tol = event_tolerances[EventIdentity(cand[i])]
       /\ cand[i].tol # DefaultTol

\* C21: an entry of the tolerance table is never removed: whatever the program
\* does (the start of a step, a search, a handling, the end of a step), an
\* identity that has a learned tolerance before still has one after.
C21_LearnedNeverRemoved ==
  [][\A id \in Ids :
       event_tolerances[id] # NoTol => event_tolerances'[id] # NoTol]_vars

C21_Witness ==
  /\ pc = "idle"
  /\ steps = 1
  /\ current_time > StepSize
  /\ \A id \in Ids : event_tolerances[id] # NoTol

\* C22: during one find_TOI call the cached end velocities and the bodies'
\* velocities are unchanged, and the position given to every body is the
\* interval-start coordinates plus the cached velocity times the time moved
\* (the returned h, or the whole interval when INF is returned).
C22_VelocitiesFixedInSearch ==
  [][(pc = "detect" /\ pc' = "found") =>
       /\ qdf' = qdf
       /\ qd' = qd
       /\ q' = [b \in Bodies |->
                  q0[b] + qdf[b] * (IF h' = INF THEN dt ELSE h')]]_vars

C24_TableKeyedByIdentity ==
  /\ [](pc = "found" =>
         \A i \in DOMAIN cand :
           cand[i].tol = IF event_tolerances[cand[i].id] # NoTol
                         THEN event_tolerances[cand[i].id] ELSE DefaultTol)
  /\ [][(pc = "found" /\ exc' # << >>) =>
          \A id \in Ids :
            (\A k \in DOMAIN exc' : events[exc'[k].idx].id # id) =>
              event_tolerances'[id] = event_tolerances[id]]_vars

C24_Witness ==
  /\ pc = "found"
  /\ \E i, j \in DOMAIN cand :
       /\ cand[i].t = cand[j].t
       /\ cand[i].id # cand[j].id
       /\ cand[i].tol = VelUnit + VelEps
       /\ cand[j].tol = DefaultTol

\* number of events returned by the invocations before the i-th
RECURSIVE LenBefore(_, _)
LenBefore(cs, i) ==
  IF i <= 1 THEN 0 ELSE LenBefore(cs, i - 1) + Len(cs[i - 1].out)

\* C25: a search makes ndet + 1 invocations: detector i is the i-th, the
\* joint-limit search is the last; the pre-sort list holds the results of the
\* invocations one after the other, each event once, and the list that is
\* sorted is an arrangement of it. With ndet = 0 the list is the limit events.
C25_EveryDetectorOnceThenLimits ==
  pc = "found" =>
    /\ Len(calls) = ndet + 1
    /\ \A i \in 1 .. ndet : calls[i].who = i
    /\ calls[ndet + 1].who = 0
    /\ Len(raw) = LenBefore(calls, ndet + 2)
    /\ \A i \in 1 .. (ndet + 1) :
         \A k \in 1 .. Len(calls[i].out) :
           raw[LenBefore(calls, i) + k] = calls[i].out[k]
    /\ IsArrangementOf(cand, raw)

C25_Witness ==
  /\ pc = "found"
  /\ ndet = 2
  /\ \A i \in 1 .. 3 : Len(calls[i].out) = 1
  /\ raw[1].id # raw[3].id

\* C28: when find_TOI returns a committed group, the group is the candidates
\* whose scaled time is at most tmin + epsilon, tmin the scaled time of the
\* group's first event: every such candidate is in it and no other is.
C28_CommittedGroupWithinEpsilon ==
  (pc = "found" /\ events # << >>) =>
    LET tmin == ScaledTime(events[1].t, dt)
    IN /\ Len(events) <= Len(cand)
       /\ events = SubSeq(cand, 1, Len(events))
       /\ \A i \in DOMAIN cand :
            i <= Len(events) <=> ScaledTime(cand[i].t, dt) <= tmin + TimeEps

C28_Witness ==
  /\ pc = "found"
  /\ Len(events) = 2
  /\ Len(cand) = 3
  /\ ScaledTime(cand[2].t, dt) = ScaledTime(cand[1].t, dt) + TimeEps
  /\ ScaledTime(cand[3].t, dt) = ScaledTime(cand[2].t, dt) + TimeEps

\* C29: when find_TOI returns a committed group, h is the scaled time of the
\* group's first event, current_time has advanced by h, every body is at
\* q0 + qdf*h, and _q0 holds that position.
C29_CommitAdvancesToGroupTime ==
  [][(pc = "detect" /\ pc' = "found" /\ events' # << >>) =>
       /\ h' = ScaledTime(events'[1].t, dt)
       /\ current_time' = current_time + h'
       /\ q' = [b \in Bodies |-> q0[b] + qdf[b] * h']
       /\ q0' = q']_vars

C29_Witness ==
  /\ pc = "found"
  /\ events # << >>
  /\ h > 0
  /\ h < dt
  /\ q0 = q
  /\ q0 # [b \in Bodies |-> InitQ]

\* C30: after a handled sub-step the loop reduces dt by h, takes the bodies'
\* velocities as the cached end velocities, and sets the provisional end
\* coordinates to the coordinates at the impact plus the new velocity times the
\* new dt; entering the next search changes none of them.
C30_RemainingIntervalRederived ==
  [][/\ (pc = "ret" /\ nproc >= 1) =>
          /\ q = q0
          /\ dt' = dt - h
          /\ qdf' = qd
          /\ qf' = [b \in Bodies |-> q[b] + qd[b] * (dt - h)]
     /\ (pc = "loop" /\ pc' = "detect") =>
          (dt' = dt /\ qdf' = qdf /\ qf' = qf /\ q0' = q0)]_vars

C30_Witness ==
  /\ pc = "loop"
  /\ nproc = 1
  /\ steps = 1
  /\ dt < step_size
  /\ qdf = qd
  /\ qdf # [b \in Bodies |-> 1]
  /\ qf = [b \in Bodies |-> q0[b] + qdf[b] * dt]
  /\ h > 0

\* C26: manifold reduction is idempotent on a coplanar group: a second
\* application returns what the first returned, so a group that is its own
\* minimal set is returned as it is; the reduction only selects events of the
\* group.
C26_ReductionIdempotent ==
  /\ \A i \in 3 .. Len(groups) : groups[i] = groups[i - 1]
  /\ \A i \in 2 .. Len(groups) : PointsOf(groups[i]) \subseteq PointsOf(groups[1])
  /\ (Len(groups) >= 2 /\ PointsOf(groups[2]) = PointsOf(groups[1])
        /\ Len(groups[2]) = Len(groups[1])) => groups[2] = groups[1]

C26_Witness ==
  /\ Len(groups) = 3
  /\ Len(groups[1]) = 3
  /\ Len(groups[2]) = 2
  /\ groups[3] = groups[2]
  /\ \E i \in 1 .. 3 : Covered(groups[1][i], PointsOf(groups[1]))

\* number of entries x in a sequence
Count(xs, x) == Cardinality({i \in DOMAIN xs : xs[i] = x})

\* every entry x of xs comes before every entry y
AllBefore(xs, x, y) ==
  \A i, j \in DOMAIN xs : (xs[i] = x /\ xs[j] = y) => i < j

\* C31: when handle_events has returned, the calls it made are in this order:
\* the event callback once and first, one preprocess_event per committed event
\* and all of them before process_events, and the post-impulse callback once
\* and last; the same when the resolver raised a tolerance violation.
C31_HooksAroundResolver ==
  (pc = "ret" /\ nproc >= 1) =>
    /\ hooks # << >>
    /\ hooks[1] = "event_callback"
    /\ Count(hooks, "event_callback") = 1
    /\ Count(hooks, "preprocess_event") = Len(events)
    /\ Count(hooks, "process_events") >= 1
    /\ AllBefore(hooks, "event_callback", "preprocess_event")
    /\ AllBefore(hooks, "preprocess_event", "process_events")
    /\ AllBefore(hooks, "process_events", "post_impulse_callback")
    /\ Count(hooks, "post_impulse_callback") = 1
    /\ hooks[Len(hooks)] = "post_impulse_callback"

C31_Witness ==
  /\ pc = "ret"
  /\ nproc = 1
  /\ exc # << >>
  /\ Len(events) = 2
  /\ Len(hooks) = 5
  /\ hooks[5] = "post_impulse_callback"

\* C32: the post-step callback fires once per step() call, on the way from
\* the end of the loop to the return, so after every search and every
\* post-mini-step callback of the call; the post-mini-step callback fires in
\* exactly the loop iterations with t <= dt, and not in the iteration that
\* leaves the loop by break.
C32_StepHooks ==
  /\ []((pc = "idle" /\ steps >= 1) =>
          (hooks # << >> /\ hooks[Len(hooks)] = "post_step"
             /\ Count(hooks, "post_step") = 1))
  /\ [][/\ Count(hooks', "post_step") > Count(hooks, "post_step") =>
             (pc = "post" /\ pc' = "idle")
        /\ Count(hooks', "post_mini_step") > Count(hooks, "post_mini_step") =>
             (pc = "ret" /\ pc' = "loop" /\ h <= dt
                /\ hooks' = Append(hooks, "post_mini_step"))
        /\ (pc = "ret" /\ h <= dt) =>
             Count(hooks', "post_mini_step") = Count(hooks, "post_mini_step") + 1
        /\ (pc = "ret" /\ h > dt) => (pc' = "post" /\ hooks' = hooks)
        /\ pc = "post" => hooks' = Append(hooks, "post_step")]_vars

C32_Witness ==
  /\ pc = "idle"
  /\ steps = 1
  /\ dt = 0
  /\ h < INF
  /\ events # << >>
  /\ hooks = <<"post_mini_step", "post_step">>

\* C33: one handle_events calls the resolver once and returns, whether the
\* resolver raises a tolerance violation or not: there is no second attempt.
C33_ResolverCallsBounded ==
  /\ Count(hooks, "process_events") <= 1
  /\ nproc <= 1
  /\ (pc = "ret" /\ exc # << >>) =>
       (Count(hooks, "process_events") = 1
          /\ hooks[Len(hooks)] = "post_impulse_callback")

C33_Witness ==
  /\ pc = "ret"
  /\ Len(exc) = 2
  /\ Count(hooks, "process_events") = 1
  /\ \A id \in Ids : event_tolerances[id] # NoTol

\* C34: a search starts with an empty event list, and the list it sorts holds
\* the events the detectors and the limit search returned in this search and
\* nothing else; no event of the previous search is in it.
C34_SearchStartsEmpty ==
  /\ pc = "detect" => (events = << >> /\ cand = << >> /\ raw = << >>)
  /\ pc = "found" =>
       /\ Len(raw) = LenBefore(calls, Len(calls) + 1)
       /\ Len(cand) = Len(raw)
       /\ IsArrangementOf(cand, raw)

C34_Witness ==
  /\ pc = "found"
  /\ steps = 1
  /\ dt < step_size
  /\ Len(cand) = 1
  /\ cand[1].t_true > cand[1].t
  /\ qdf # [b \in Bodies |-> 1]

\* two events share a super body
SharesBody(e1, e2) == e1.sb \cap e2.sb # {}

\* the events linked to an event of S by a chain of at most n shared bodies
RECURSIVE LinkedTo(_, _, _)
LinkedTo(g, S, n) ==
  IF n = 0 THEN S
  ELSE LinkedTo(g, S \cup {j \in DOMAIN g :
                             \E i \in S : SharesBody(g[i], g[j])}, n - 1)

\* the groups that hold the event
GroupsOf(out, e) == {j \in DOMAIN out : \E k \in DOMAIN out[j] : out[j][k] = e}

\* C35: determine_connected_events partitions its input: every event is in
\* exactly one group and once, no group is empty or holds anything else, two
\* events that share a super body are in one group, and two events of one
\* group are linked by a chain of events each sharing a body with the next.
C35_ConnectedGroupsPartition ==
  pc = "ret" =>
    LET g == groups[1]
        out == Tail(groups)
    IN /\ \A j \in DOMAIN out :
            /\ out[j] # << >>
            /\ \A k \in DOMAIN out[j] : \E i \in DOMAIN g : out[j][k] = g[i]
            /\ \A k1, k2 \in DOMAIN out[j] :
                 out[j][k1] = out[j][k2] => k1 = k2
       /\ \A i \in DOMAIN g : Cardinality(GroupsOf(out, g[i])) = 1
       /\ \A i1, i2 \in DOMAIN g :
            SharesBody(g[i1], g[i2]) => GroupsOf(out, g[i1]) = GroupsOf(out, g[i2])
       /\ \A i1, i2 \in DOMAIN g :
            GroupsOf(out, g[i1]) = GroupsOf(out, g[i2]) =>
              i2 \in LinkedTo(g, {i1}, Len(g))

C35_Witness ==
  /\ pc = "ret"
  /\ Len(groups) = 2
  /\ Len(groups[1]) = 3
  /\ Len(groups[2]) = 3
  /\ \E i, j \in 1 .. 3 : ~SharesBody(groups[1][i], groups[1][j])

\* C36: a group that find_TOI committed (it holds an impacting event) has been
\* passed to the resolver when find_and_handle_si_events returns, also when it
\* was committed at h = dt.
C36_CommittedGroupResolved ==
  (pc = "ret" /\ events # << >>) => nproc >= 1

\* C37: at the head of the loop of a step() call, 0 <= dt <= step_size and the
\* time advanced since the call began plus dt is step_size; when the call has
\* returned, current_time has advanced by step_size (the k-th call returns at
\* k * step_size), whether the loop ended by its condition or by break.
C37_TimeAccounting ==
  /\ pc = "loop" =>
       /\ 0 <= dt
       /\ dt <= step_size
       /\ (current_time - (steps - 1) * step_size) + dt = step_size
  /\ (pc \in {"post", "idle"} /\ steps >= 1) =>
       /\ current_time = steps * step_size
       /\ step_size = StepSize

C37_Witness ==
  /\ pc = "idle"
  /\ steps = 1
  /\ current_time = step_size
  /\ 0 < dt
  /\ dt < step_size
  /\ hooks = <<"post_step">>

\* C38: a handled sub-step with h of at least one tick leaves a remaining
\* interval that is smaller by h and not negative, so there are at most dt of
\* them; the remaining interval stays as it is only after an impacting group
\* committed at h = 0 was handled; and a step() call returns unless such a
\* zero-length sub-step is handled.
C38_ProgressUnlessZeroStep ==
  /\ [][(pc = "ret" /\ pc' = "loop") =>
          /\ h >= 1 => (dt' <= dt - 1 /\ dt' >= 0)
          /\ dt' >= dt =>
               (h = 0 /\ nproc >= 1
                  /\ \E i \in DOMAIN events : is_impacting(events[i]))]_vars
  /\ <>(pc = "idle" \/ (pc = "ret" /\ nproc >= 1 /\ h = 0))

C38_Witness ==
  /\ pc = "loop"
  /\ nproc = 1
  /\ h >= 1
  /\ 0 < dt
  /\ dt = step_size - h

SwapName(x) ==
  CASE x = "g1" -> "g2" [] x = "g2" -> "g1"
    [] x = "sb1" -> "sb2" [] x = "sb2" -> "sb1"
    [] x = "ab1" -> "ab2" [] x = "ab2" -> "ab1"

SwapKey(k) == {SwapName(x) : x \in k}

\* get_contact_parameters(geom2, geom1): in the call the second geometry plays
\* the part of geom1, and the entry found is named by the caller's names
SwappedLookup(tab, ab) ==
  SwapKey(get_contact_parameters({SwapKey(k) : k \in tab},
                                 [i \in 1 .. 2 |-> ab[3 - i]]))

\* C39: get_contact_parameters(g1, g2) and get_contact_parameters(g2, g1)
\* return the same entry, whatever is registered.
C39_LookupSymmetric ==
  cpOut # CPPending => cpOut = SwappedLookup(contact_params, artic)

\* C40: after a tolerance violation, the tolerance stored for the identity of
\* every event the exception names is at least that event's measured speed.
C40_LearnedCoversEveryEvent ==
  (pc = "ret" /\ exc # << >>) =>
    \A k \in DOMAIN exc : event_tolerances[exc[k].id] >= Abs(exc[k].m)
====
